---- MODULE Spec2Model ----
(***************************************************************************)
(* Run-metadata reducer of the run view (RunMetadataProvider):             *)
(* extractMetadataFromLogs folds the log events of a run into a run        *)
(* metadata dictionary (per-step state, transitions, attempts, markers,    *)
(* run-level timestamps).  The log list only grows; every time it grows    *)
(* the reducer is invoked again on the whole list.                         *)
(***************************************************************************)
EXTENDS Integers, Sequences, FiniteSets, TLC

\* ------------------------------------------------------------------------
\* Bounds of the model
\* ------------------------------------------------------------------------
\* largest timestamp digit an input event carries (timestamps are 0..MaxTime)
MaxTime == 2
\* largest number of log events of a run
\* SpecRetry: largest timestamp digit, and largest number of run-exit events
MaxRetryTime == 4
MaxRunExits == 1
\* run summaries: largest time in half-milliseconds, most attempts and most
\* markers of a step-stat record
MaxRunTime == 3
MaxAttempts == 2
MaxMarkers == 1
\* SpecMarkerPairs: most marker events
MaxMarkerLogs == 4
MaxLogs == 3

\* ------------------------------------------------------------------------
\* Values
\* ------------------------------------------------------------------------
\* IStepState
PREPARING == "preparing"
RETRY_REQUESTED == "retry-requested"
RUNNING == "running"
SUCCEEDED == "succeeded"
SKIPPED == "skipped"
FAILED == "failed"
UNKNOWN == "unknown"
IStepState == {PREPARING, RETRY_REQUESTED, RUNNING, SUCCEEDED, SKIPPED, FAILED, UNKNOWN}

\* exit states that count SKIPPED in
BOX_EXIT_STATES_WithSkipped == {RETRY_REQUESTED, SUCCEEDED, SKIPPED, FAILED, UNKNOWN}
BOX_EXIT_STATES == {RETRY_REQUESTED, SUCCEEDED, FAILED, UNKNOWN}

\* `undefined` in a numeric field (start, end, exitedAt, ...)
Undefined == -1
\* null / undefined / empty in a string field (stepKey, markerStart, exitState, ...)
NoKey == ""

\* JavaScript truthiness of an optional number: undefined and 0 are falsy
Truthy(n) == n # Undefined /\ n # 0
\* `x || 0`
OrZero(n) == IF Truthy(n) THEN n ELSE 0
Min(a, b) == IF a <= b THEN a ELSE b
\* Math.min written where Math.max is meant
Max_AsMin(a, b) == IF a <= b THEN a ELSE b
Max(a, b) == IF a >= b THEN a ELSE b

\* Number.parseInt(str, 10) of a string of decimal digits, given as the
\* sequence of its digits
RECURSIVE ParseInt(_)
ParseInt(str) ==
  IF str = <<>> THEN 0
  ELSE 10 * ParseInt(SubSeq(str, 1, Len(str) - 1)) + str[Len(str)]

\* ------------------------------------------------------------------------
\* Input events (RunMetadataProviderMessageFragment)
\* ------------------------------------------------------------------------
StepKeys == {"A", "B"}
MarkerKeys == {"k"}
Timestamps == {<<d>> : d \in 0..MaxTime}

RunExitTypes == {"RunFailureEvent", "RunSuccessEvent", "RunCanceledEvent"}
MarkerTypes == {"EngineEvent", "ResourceInitFailureEvent", "ResourceInitStartedEvent",
                "ResourceInitSuccessEvent", "StepWorkerStartedEvent",
                "StepWorkerStartingEvent"}

Log(typename, timestamp, stepKey) ==
  [typename |-> typename, timestamp |-> timestamp, stepKey |-> stepKey,
   markerStart |-> NoKey, markerEnd |-> NoKey, op |-> NoKey,
   fileKey |-> NoKey, stepKeys |-> <<>>, pid |-> NoKey, externalUrl |-> NoKey]

\* ------------------------------------------------------------------------
\* extractMetadataFromLogs
\* ------------------------------------------------------------------------
EMPTY_RUN_METADATA ==
  [firstLogAt |-> 0, mostRecentLogAt |-> 0,
   startedPipelineAt |-> Undefined, exitedAt |-> Undefined,
   globalMarkers |-> <<>>, steps |-> <<>>, logCaptureSteps |-> <<>>]

\* a refinement that lets every kind of event through
refineMarkerEvent_EveryKind(log) == TRUE

refineMarkerEvent(log) == log.typename \in MarkerTypes

\* index of the first marker of `set` with the given key and a falsy end; 0 if none
RECURSIVE FindMarker(_, _, _)
FindMarker(set, key, i) ==
  IF i > Len(set) THEN 0
  ELSE IF set[i].key = key /\ ~Truthy(set[i].end) THEN i
  ELSE FindMarker(set, key, i + 1)

\* upsertMarker that always puts a new marker in front
upsertMarker_AlwaysNew(set, key) ==
  <<[key |-> key, start |-> Undefined, end |-> Undefined]>> \o set

\* the marker list after upsertMarker: a marker {key} is put in front when
\* no marker with that key lacks an end
upsertMarker(set, key) ==
  IF FindMarker(set, key, 1) = 0
  THEN <<[key |-> key, start |-> Undefined, end |-> Undefined]>> \o set
  ELSE set

\* upsertMarker(set, key).start = timestamp
MarkerStart(set, key, timestamp) ==
  LET s == upsertMarker(set, key)
  IN  [s EXCEPT ![FindMarker(s, key, 1)].start = timestamp]

\* upsertMarker(set, key).end = timestamp
MarkerEnd(set, key, timestamp) ==
  LET s == upsertMarker(set, key)
  IN  [s EXCEPT ![FindMarker(s, key, 1)].end = timestamp]

\* the two marker updates of a marker-capable event on one marker list
ApplyMarkers(set, log, timestamp) ==
  IF ~refineMarkerEvent(log) THEN set
  ELSE LET s1 == IF log.markerStart # NoKey
                 THEN MarkerStart(set, log.markerStart, timestamp) ELSE set
       IN  IF log.markerEnd # NoKey
           THEN MarkerEnd(s1, log.markerEnd, timestamp) ELSE s1

\* upsertState that sets the state and forgets to record the transition
upsertState_NoPush(step, time, state) ==
  [step EXCEPT !.state = state, !.attempts = <<>>]

upsertState(step, time, state) ==
  [step EXCEPT !.transitions = Append(@, [state |-> state, time |-> time]),
               !.state = state,
               !.attempts = <<>>]

\* a new step whose first transition is stamped 0 instead of the event's time
NewStep_TimeZero(timestamp) ==
  [state |-> PREPARING, attempts |-> <<>>,
   transitions |-> <<[state |-> PREPARING, time |-> 0]>>,
   start |-> Undefined, end |-> Undefined, markers |-> <<>>]

\* the step object a step event works on: the stored one, or a new one
NewStep(timestamp) ==
  [state |-> PREPARING, attempts |-> <<>>,
   transitions |-> <<[state |-> PREPARING, time |-> timestamp]>>,
   start |-> Undefined, end |-> Undefined, markers |-> <<>>]

\* run exit that forces every step, whatever its state
ForceUnknown_EveryStep(steps, timestamp) ==
  [k \in DOMAIN steps |-> upsertState(steps[k], timestamp, UNKNOWN)]

\* run exit: every step that is RUNNING goes to UNKNOWN
ForceUnknown(steps, timestamp) ==
  [k \in DOMAIN steps |->
     IF steps[k].state = RUNNING
     THEN upsertState(steps[k], timestamp, UNKNOWN)
     ELSE steps[k]]

\* retry whose PREPARING transition is stamped with the time of the event
UpForRetry_SameTime(step, timestamp) ==
  upsertState(upsertState(step, timestamp, RETRY_REQUESTED), timestamp, PREPARING)

\* ExecutionStepUpForRetryEvent: an exit state, then "preparing" one unit later
UpForRetry(step, timestamp) ==
  upsertState(upsertState(step, timestamp, RETRY_REQUESTED),
              timestamp + 1, PREPARING)

\* the chain with a restart that sets the start of the step as a start does
StepTransition_RestartSetsStart(step, log, timestamp) ==
  CASE log.typename = "ExecutionStepStartEvent" ->
         [upsertState(step, timestamp, RUNNING) EXCEPT !.start = timestamp]
    [] log.typename = "ExecutionStepSuccessEvent" ->
         [upsertState(step, timestamp, SUCCEEDED)
            EXCEPT !.end = Max(timestamp, OrZero(step.end))]
    [] log.typename = "ExecutionStepSkippedEvent" ->
         upsertState(step, timestamp, SKIPPED)
    [] log.typename = "ExecutionStepFailureEvent" ->
         [upsertState(step, timestamp, FAILED)
            EXCEPT !.end = Max(timestamp, OrZero(step.end))]
    [] log.typename = "ExecutionStepUpForRetryEvent" ->
         UpForRetry(step, timestamp)
    [] log.typename = "ExecutionStepRestartEvent" ->
         [upsertState(step, timestamp, RUNNING) EXCEPT !.start = timestamp]
    [] OTHER -> step

\* the if / else-if chain on the event type of a step event
StepTransition(step, log, timestamp) ==
  CASE log.typename = "ExecutionStepStartEvent" ->
         [upsertState(step, timestamp, RUNNING) EXCEPT !.start = timestamp]
    [] log.typename = "ExecutionStepSuccessEvent" ->
         [upsertState(step, timestamp, SUCCEEDED)
            EXCEPT !.end = Max(timestamp, OrZero(step.end))]
    [] log.typename = "ExecutionStepSkippedEvent" ->
         upsertState(step, timestamp, SKIPPED)
    [] log.typename = "ExecutionStepFailureEvent" ->
         [upsertState(step, timestamp, FAILED)
            EXCEPT !.end = Max(timestamp, OrZero(step.end))]
    [] log.typename = "ExecutionStepUpForRetryEvent" ->
         UpForRetry(step, timestamp)
    [] log.typename = "ExecutionStepRestartEvent" ->
         upsertState(step, timestamp, RUNNING)
    [] OTHER -> step

\* no early return: a copy event is stored like any other step event
IsCopy_Never(log) == FALSE

\* the early return of the ObjectStoreOperationEvent branch
IsCopy(log) == log.typename = "ObjectStoreOperationEvent" /\ log.op = "CP_OBJECT"

\* the part of the loop body under `if (log.stepKey)`
StepEvent(steps, log, timestamp) ==
  IF log.stepKey = NoKey THEN steps
  ELSE LET stepKey == log.stepKey
           exists  == stepKey \in DOMAIN steps
           step    == IF exists THEN steps[stepKey] ELSE NewStep(timestamp)
           marked  == [step EXCEPT !.markers = ApplyMarkers(@, log, timestamp)]
           moved   == StepTransition(marked, log, timestamp)
       IN  IF IsCopy(log)
           THEN \* return before the step is stored; a stored step object
                \* keeps what was done to it in place
                IF exists THEN [steps EXCEPT ![stepKey] = moved] ELSE steps
           ELSE [k \in DOMAIN steps \cup {stepKey} |->
                   IF k = stepKey THEN moved ELSE steps[k]]

LogCapture(captures, log) ==
  IF log.typename # "LogsCapturedEvent" THEN captures
  ELSE [k \in DOMAIN captures \cup {log.fileKey} |->
          IF k = log.fileKey
          THEN [fileKey |-> log.fileKey, stepKeys |-> log.stepKeys,
                pid |-> IF log.pid = NoKey THEN "null" ELSE log.pid,
                externalUrl |-> log.externalUrl]
          ELSE captures[k]]

\* the body of logs.forEach
ProcessLog(metadata, log) ==
  LET timestamp == ParseInt(log.timestamp)
      firstLogAt == IF Truthy(metadata.firstLogAt)
                    THEN Min(metadata.firstLogAt, timestamp) ELSE timestamp
      mostRecentLogAt == Max(metadata.mostRecentLogAt, timestamp)
      isExit == log.typename \in RunExitTypes
      forced == IF isExit THEN ForceUnknown(metadata.steps, timestamp)
                ELSE metadata.steps
  IN  [firstLogAt |-> firstLogAt,
       mostRecentLogAt |-> mostRecentLogAt,
       startedPipelineAt |-> IF log.typename = "RunStartEvent" THEN timestamp
                             ELSE metadata.startedPipelineAt,
       exitedAt |-> IF isExit THEN timestamp ELSE metadata.exitedAt,
       globalMarkers |-> IF log.stepKey = NoKey
                         THEN ApplyMarkers(metadata.globalMarkers, log, timestamp)
                         ELSE metadata.globalMarkers,
       steps |-> StepEvent(forced, log, timestamp),
       logCaptureSteps |-> LogCapture(metadata.logCaptureSteps, log)]

\* logs.forEach: the dictionary before post-processing
RECURSIVE ReduceLogs(_)
ReduceLogs(logs) ==
  IF logs = <<>> THEN EMPTY_RUN_METADATA
  ELSE ProcessLog(ReduceLogs(SubSeq(logs, 1, Len(logs) - 1)), logs[Len(logs)])

\* Array.prototype.sort((a, b) => a.time - b.time): stable, ascending by time
\* a sort that puts an element before the elements of equal time
RECURSIVE Insert_BeforeEqual(_, _)
Insert_BeforeEqual(sorted, t) ==
  IF sorted = <<>> THEN <<t>>
  ELSE IF sorted[Len(sorted)].time < t.time THEN Append(sorted, t)
  ELSE Append(Insert_BeforeEqual(SubSeq(sorted, 1, Len(sorted) - 1), t),
              sorted[Len(sorted)])

RECURSIVE Insert(_, _)
Insert(sorted, t) ==
  IF sorted = <<>> THEN <<t>>
  ELSE IF sorted[Len(sorted)].time <= t.time THEN Append(sorted, t)
  ELSE Append(Insert(SubSeq(sorted, 1, Len(sorted) - 1), t), sorted[Len(sorted)])

\* no sort: the transitions stay in arrival order
SortTransitions_Unsorted(transitions) == transitions

RECURSIVE SortTransitions(_)
SortTransitions(transitions) ==
  IF transitions = <<>> THEN <<>>
  ELSE Insert(SortTransitions(SubSeq(transitions, 1, Len(transitions) - 1)),
              transitions[Len(transitions)])

\* an exit transition is recorded only while the attempt has no end yet
AttemptStep_FirstExitWins(attempts, t) ==
  LET opened == IF (attempts = <<>> \/ Truthy(attempts[Len(attempts)].end))
                   /\ t.state = RUNNING
                THEN Append(attempts, [start |-> t.time, end |-> Undefined,
                                       exitState |-> NoKey])
                ELSE attempts
  IN  IF /\ opened # <<>>
         /\ ~Truthy(opened[Len(opened)].end)
         /\ t.state \in BOX_EXIT_STATES
      THEN [opened EXCEPT ![Len(opened)].end = t.time,
                          ![Len(opened)].exitState = t.state]
      ELSE opened

\* an attempt is opened at every RUNNING transition, open attempt or not
AttemptStep_AlwaysOpens(attempts, t) ==
  LET opened == IF t.state = RUNNING
                THEN Append(attempts, [start |-> t.time, end |-> Undefined,
                                       exitState |-> NoKey])
                ELSE attempts
  IN  IF opened # <<>> /\ t.state \in BOX_EXIT_STATES
      THEN [opened EXCEPT ![Len(opened)].end = t.time,
                          ![Len(opened)].exitState = t.state]
      ELSE opened

\* one iteration of the loop that builds the attempts; `attempt` is the last
\* element of the list, or null when the list is empty
AttemptStep(attempts, t) ==
  LET opened == IF (attempts = <<>> \/ Truthy(attempts[Len(attempts)].end))
                   /\ t.state = RUNNING
                THEN Append(attempts, [start |-> t.time, end |-> Undefined,
                                       exitState |-> NoKey])
                ELSE attempts
  IN  IF opened # <<>> /\ t.state \in BOX_EXIT_STATES
      THEN [opened EXCEPT ![Len(opened)].end = t.time,
                          ![Len(opened)].exitState = t.state]
      ELSE opened

RECURSIVE BuildAttempts(_)
BuildAttempts(transitions) ==
  IF transitions = <<>> THEN <<>>
  ELSE AttemptStep(BuildAttempts(SubSeq(transitions, 1, Len(transitions) - 1)),
                   transitions[Len(transitions)])

\* post-processing of one step
PostProcess(step) ==
  LET sorted == SortTransitions(step.transitions)
  IN  [step EXCEPT !.transitions = sorted, !.attempts = BuildAttempts(sorted)]

extractMetadataFromLogs(logs) ==
  LET metadata == ReduceLogs(logs)
  IN  [metadata EXCEPT !.steps = [k \in DOMAIN metadata.steps |->
                                    PostProcess(metadata.steps[k])]]

\* ------------------------------------------------------------------------
\* extractMetadataFromRun
\* The times of a run summary are seconds with a fraction; they are kept as
\* whole numbers of half-milliseconds. Null is the absent time, NoStatus the
\* absent status, NoRun the absent run.
\* ------------------------------------------------------------------------
Null == -2
UnitsPerSecond == 2000
NoStatus == "null"
StepEventStatus == {"SUCCESS", "FAILURE", "SKIPPED", "IN_PROGRESS"}
NoRun == [defined |-> FALSE, startTime |-> Null, endTime |-> Null, stepStats |-> <<>>]

fromTimestamp(ts) ==
  IF ts # Null /\ ts # 0 THEN (ts * 1000) \div UnitsPerSecond ELSE Undefined

\* the status table with SKIPPED left to the default
stepStatusToStepState_SkippedByDefault(status) ==
  CASE status = "SUCCESS" -> SUCCEEDED
    [] status = "FAILURE" -> FAILED
    [] OTHER -> UNKNOWN

stepStatusToStepState(status) ==
  CASE status = "SUCCESS" -> SUCCEEDED
    [] status = "FAILURE" -> FAILED
    [] status = "SKIPPED" -> SKIPPED
    [] OTHER -> UNKNOWN

\* attempts that all get the state mapped from the status
SummaryAttempts_AllMapped(stepStat) ==
  [idx \in 1..Len(stepStat.attempts) |->
     [start |-> fromTimestamp(stepStat.attempts[idx].startTime),
      end |-> fromTimestamp(stepStat.attempts[idx].endTime),
      exitState |-> stepStatusToStepState(stepStat.status)]]

\* stepStat.attempts.map(...)
SummaryAttempts(stepStat) ==
  [idx \in 1..Len(stepStat.attempts) |->
     [start |-> fromTimestamp(stepStat.attempts[idx].startTime),
      end |-> fromTimestamp(stepStat.attempts[idx].endTime),
      exitState |-> IF idx = Len(stepStat.attempts)
                    THEN stepStatusToStepState(stepStat.status)
                    ELSE RETRY_REQUESTED]]

\* `marker_${idx}`, idx counted from 0
MarkerName(idx) == "marker_" \o ToString(idx)

\* stepStat.markers.map(...)
SummaryMarkers(stepStat) ==
  [idx \in 1..Len(stepStat.markers) |->
     [key |-> MarkerName(idx - 1),
      start |-> fromTimestamp(stepStat.markers[idx].startTime),
      end |-> fromTimestamp(stepStat.markers[idx].endTime)]]

SummaryStep(stepStat) ==
  [state |-> stepStatusToStepState(stepStat.status),
   start |-> fromTimestamp(stepStat.startTime),
   end |-> fromTimestamp(stepStat.endTime),
   transitions |-> <<>>,
   attempts |-> SummaryAttempts(stepStat),
   markers |-> SummaryMarkers(stepStat)]

\* run.stepStats.forEach(...): a later record of a step replaces an earlier one
RECURSIVE SummarySteps(_, _)
SummarySteps(steps, stepStats) ==
  IF stepStats = <<>> THEN steps
  ELSE LET stepStat == Head(stepStats)
       IN  SummarySteps([k \in DOMAIN steps \cup {stepStat.stepKey} |->
                           IF k = stepStat.stepKey THEN SummaryStep(stepStat)
                           ELSE steps[k]],
                        Tail(stepStats))

extractMetadataFromRun(run) ==
  IF ~run.defined THEN EMPTY_RUN_METADATA
  ELSE [EMPTY_RUN_METADATA EXCEPT
          !.startedPipelineAt = IF run.startTime # Null /\ run.startTime # 0
                                THEN fromTimestamp(run.startTime) ELSE Undefined,
          !.exitedAt = IF run.endTime # Null /\ run.endTime # 0
                       THEN fromTimestamp(run.endTime) ELSE Undefined,
          !.steps = SummarySteps(<<>>, run.stepStats)]

\* the selection the specification words describe: live while loading or
\* when an event is present
RunMetadataProvider_LiveWhenLoading(allNodes, loading, run) ==
  IF loading \/ allNodes # <<>> THEN extractMetadataFromLogs(allNodes)
  ELSE extractMetadataFromRun(run)

\* a selection that falls back to the summary when there is no event
RunMetadataProvider_SummaryWhenEmpty(allNodes, loading, run) ==
  IF loading \/ allNodes = <<>> THEN extractMetadataFromRun(run)
  ELSE extractMetadataFromLogs(allNodes)

\* the metadata handed to the children
RunMetadataProvider(allNodes, loading, run) ==
  IF loading THEN extractMetadataFromRun(run)
  ELSE extractMetadataFromLogs(allNodes)

\* run summaries
RunTimes == {Null} \cup (0..MaxRunTime)
\* n records {startTime, endTime} that follow one another
Spans(n) == [idx \in 1..n |-> [startTime |-> idx, endTime |-> idx + 1]]
StepStat(stepKey, status, startTime, endTime, n, m) ==
  [stepKey |-> stepKey, status |-> status, startTime |-> startTime,
   endTime |-> endTime, attempts |-> Spans(n), markers |-> Spans(m)]
StepStats(stepKey) ==
  {StepStat(stepKey, status, startTime, endTime, n, m) :
     status \in StepEventStatus \cup {NoStatus},
     startTime \in RunTimes, endTime \in RunTimes,
     n \in 0..MaxAttempts, m \in 0..MaxMarkers}
Run(startTime, endTime, stepStats) ==
  [defined |-> TRUE, startTime |-> startTime, endTime |-> endTime,
   stepStats |-> stepStats]
\* no run, runs without steps, runs of step A, runs of steps A and B
Runs ==
  {NoRun}
  \cup {Run(startTime, endTime, <<>>) : startTime \in RunTimes, endTime \in RunTimes}
  \cup {Run(startTime, endTime, <<a>>) :
          startTime \in RunTimes, endTime \in RunTimes, a \in StepStats("A")}
  \cup {Run(Null, Null, <<a, StepStat("B", status, Null, Null, 1, 0)>>) :
          a \in StepStats("A"), status \in StepEventStatus \cup {NoStatus}}
\* the runs next to which events arrive
ProviderRuns ==
  {NoRun, Run(Null, Null, <<>>)}
  \cup {Run(2, MaxRunTime, <<StepStat("A", status, 2, MaxRunTime, 1, 0)>>) :
          status \in {"SUCCESS", "IN_PROGRESS"}}

\* ------------------------------------------------------------------------
\* State: the log list of the run, the dictionary the reducer returned for
\* it, the dictionary it returned before the last event arrived, the run
\* summary of the context and the loading flag of the log list
\* ------------------------------------------------------------------------
VARIABLES logs, metadata, prev, run, loading
vars == <<logs, metadata, prev, run, loading>>

Init ==
  /\ logs = <<>>
  /\ metadata = extractMetadataFromLogs(<<>>)
  /\ prev = extractMetadataFromLogs(<<>>)
  /\ run = NoRun
  /\ loading = FALSE

\* A new event arrives and the reducer runs on the whole list.
\* the list after the arrival of `log`
Arrived(log) == Append(logs, log)

RunStart ==
  \E ts \in Timestamps :
    /\ Len(logs) < MaxLogs
    /\ logs' = Arrived(Log("RunStartEvent", ts, NoKey))
    /\ prev' = metadata
    /\ metadata' = extractMetadataFromLogs(logs')
    /\ UNCHANGED <<run, loading>>

RunExit ==
  \E ts \in Timestamps, ty \in RunExitTypes :
    /\ Len(logs) < MaxLogs
    /\ logs' = Arrived(Log(ty, ts, NoKey))
    /\ prev' = metadata
    /\ metadata' = extractMetadataFromLogs(logs')
    /\ UNCHANGED <<run, loading>>

StepStart ==
  \E ts \in Timestamps, s \in StepKeys :
    /\ Len(logs) < MaxLogs
    /\ logs' = Arrived(Log("ExecutionStepStartEvent", ts, s))
    /\ prev' = metadata
    /\ metadata' = extractMetadataFromLogs(logs')
    /\ UNCHANGED <<run, loading>>

StepSuccess ==
  \E ts \in Timestamps, s \in StepKeys :
    /\ Len(logs) < MaxLogs
    /\ logs' = Arrived(Log("ExecutionStepSuccessEvent", ts, s))
    /\ prev' = metadata
    /\ metadata' = extractMetadataFromLogs(logs')
    /\ UNCHANGED <<run, loading>>

StepSkipped ==
  \E ts \in Timestamps, s \in StepKeys :
    /\ Len(logs) < MaxLogs
    /\ logs' = Arrived(Log("ExecutionStepSkippedEvent", ts, s))
    /\ prev' = metadata
    /\ metadata' = extractMetadataFromLogs(logs')
    /\ UNCHANGED <<run, loading>>

StepFailure ==
  \E ts \in Timestamps, s \in StepKeys :
    /\ Len(logs) < MaxLogs
    /\ logs' = Arrived(Log("ExecutionStepFailureEvent", ts, s))
    /\ prev' = metadata
    /\ metadata' = extractMetadataFromLogs(logs')
    /\ UNCHANGED <<run, loading>>

StepUpForRetry ==
  \E ts \in Timestamps, s \in StepKeys :
    /\ Len(logs) < MaxLogs
    /\ logs' = Arrived(Log("ExecutionStepUpForRetryEvent", ts, s))
    /\ prev' = metadata
    /\ metadata' = extractMetadataFromLogs(logs')
    /\ UNCHANGED <<run, loading>>

StepRestart ==
  \E ts \in Timestamps, s \in StepKeys :
    /\ Len(logs) < MaxLogs
    /\ logs' = Arrived(Log("ExecutionStepRestartEvent", ts, s))
    /\ prev' = metadata
    /\ metadata' = extractMetadataFromLogs(logs')
    /\ UNCHANGED <<run, loading>>

ObjectStoreOperation ==
  \E ts \in Timestamps, s \in StepKeys, op \in {"CP_OBJECT", "SET_OBJECT"} :
    /\ Len(logs) < MaxLogs
    /\ logs' = Arrived([Log("ObjectStoreOperationEvent", ts, s) EXCEPT !.op = op])
    /\ prev' = metadata
    /\ metadata' = extractMetadataFromLogs(logs')
    /\ UNCHANGED <<run, loading>>

\* a marker-capable event that opens or closes a marker of a step
MarkerEvent ==
  \E ts \in Timestamps, s \in StepKeys, k \in MarkerKeys, side \in {"start", "end"} :
    /\ Len(logs) < MaxLogs
    /\ logs' = Arrived([Log("EngineEvent", ts, s)
                          EXCEPT !.markerStart = IF side = "start" THEN k ELSE NoKey,
                                 !.markerEnd = IF side = "end" THEN k ELSE NoKey])
    /\ prev' = metadata
    /\ metadata' = extractMetadataFromLogs(logs')
    /\ UNCHANGED <<run, loading>>

LogsCaptured ==
  \E ts \in Timestamps :
    /\ Len(logs) < MaxLogs
    /\ logs' = Arrived([Log("LogsCapturedEvent", ts, NoKey)
                          EXCEPT !.fileKey = "f", !.stepKeys = <<"A", "B">>,
                                 !.pid = "7"])
    /\ prev' = metadata
    /\ metadata' = extractMetadataFromLogs(logs')
    /\ UNCHANGED <<run, loading>>

Next ==
  \/ RunStart
  \/ RunExit
  \/ StepStart
  \/ StepSuccess
  \/ StepSkipped
  \/ StepFailure
  \/ StepUpForRetry
  \/ StepRestart
  \/ ObjectStoreOperation
  \/ MarkerEvent
  \/ LogsCaptured

Spec == Init /\ [][Next]_vars

\* ------------------------------------------------------------------------
\* SpecRetry: the events of one step arrive in the order start, queued for
\* retry, restart, failure, each with any timestamp, and run-exit events
\* arrive anywhere among them.
\* ------------------------------------------------------------------------
RetryTimestamps == {<<d>> : d \in 0..MaxRetryTime}
StepEventCount(s) == Cardinality({i \in DOMAIN logs : logs[i].stepKey = s})
RunExitCount == Cardinality({i \in DOMAIN logs : logs[i].typename \in RunExitTypes})

RetryStart ==
  \E ts \in RetryTimestamps :
    /\ StepEventCount("A") = 0
    /\ logs' = Arrived(Log("ExecutionStepStartEvent", ts, "A"))
    /\ prev' = metadata
    /\ metadata' = extractMetadataFromLogs(logs')
    /\ UNCHANGED <<run, loading>>

RetryUpForRetry ==
  \E ts \in RetryTimestamps :
    /\ StepEventCount("A") = 1
    /\ logs' = Arrived(Log("ExecutionStepUpForRetryEvent", ts, "A"))
    /\ prev' = metadata
    /\ metadata' = extractMetadataFromLogs(logs')
    /\ UNCHANGED <<run, loading>>

RetryRestart ==
  \E ts \in RetryTimestamps :
    /\ StepEventCount("A") = 2
    /\ logs' = Arrived(Log("ExecutionStepRestartEvent", ts, "A"))
    /\ prev' = metadata
    /\ metadata' = extractMetadataFromLogs(logs')
    /\ UNCHANGED <<run, loading>>

RetryFailure ==
  \E ts \in RetryTimestamps :
    /\ StepEventCount("A") = 3
    /\ logs' = Arrived(Log("ExecutionStepFailureEvent", ts, "A"))
    /\ prev' = metadata
    /\ metadata' = extractMetadataFromLogs(logs')
    /\ UNCHANGED <<run, loading>>

RetryRunExit ==
  \E ts \in RetryTimestamps :
    /\ RunExitCount < MaxRunExits
    /\ logs' = Arrived(Log("RunFailureEvent", ts, NoKey))
    /\ prev' = metadata
    /\ metadata' = extractMetadataFromLogs(logs')
    /\ UNCHANGED <<run, loading>>

NextRetry ==
  \/ RetryStart
  \/ RetryUpForRetry
  \/ RetryRestart
  \/ RetryFailure
  \/ RetryRunExit

SpecRetry == Init /\ [][NextRetry]_vars

\* ------------------------------------------------------------------------
\* SpecMarkers: marker events of two marker-capable kinds arrive for a step
\* or for the run as a whole, next to step-start events.
\* ------------------------------------------------------------------------
MarkerKinds == {"EngineEvent", "StepWorkerStartedEvent"}
MarkerTargets == StepKeys \cup {NoKey}

MarkerOpens ==
  \E kind \in MarkerKinds, ts \in Timestamps, s \in MarkerTargets, k \in MarkerKeys :
    /\ Len(logs) < MaxLogs
    /\ logs' = Arrived([Log(kind, ts, s) EXCEPT !.markerStart = k])
    /\ prev' = metadata
    /\ metadata' = extractMetadataFromLogs(logs')
    /\ UNCHANGED <<run, loading>>

MarkerCloses ==
  \E kind \in MarkerKinds, ts \in Timestamps, s \in MarkerTargets, k \in MarkerKeys :
    /\ Len(logs) < MaxLogs
    /\ logs' = Arrived([Log(kind, ts, s) EXCEPT !.markerEnd = k])
    /\ prev' = metadata
    /\ metadata' = extractMetadataFromLogs(logs')
    /\ UNCHANGED <<run, loading>>

MarkerOpensAndCloses ==
  \E kind \in MarkerKinds, ts \in Timestamps, s \in MarkerTargets, k \in MarkerKeys :
    /\ Len(logs) < MaxLogs
    /\ logs' = Arrived([Log(kind, ts, s) EXCEPT !.markerStart = k, !.markerEnd = k])
    /\ prev' = metadata
    /\ metadata' = extractMetadataFromLogs(logs')
    /\ UNCHANGED <<run, loading>>

MarkedStepStarts ==
  \E ts \in Timestamps, s \in StepKeys :
    /\ Len(logs) < MaxLogs
    /\ logs' = Arrived(Log("ExecutionStepStartEvent", ts, s))
    /\ prev' = metadata
    /\ metadata' = extractMetadataFromLogs(logs')
    /\ UNCHANGED <<run, loading>>

NextMarkers ==
  \/ MarkerOpens
  \/ MarkerCloses
  \/ MarkerOpensAndCloses
  \/ MarkedStepStarts

SpecMarkers == Init /\ [][NextMarkers]_vars

\* ------------------------------------------------------------------------
\* SpecSummary: the log list is loading and still empty, and the context
\* hands over the run summary.
\* ------------------------------------------------------------------------
InitLoading ==
  /\ logs = <<>>
  /\ run = NoRun
  /\ loading = TRUE
  /\ metadata = RunMetadataProvider(logs, loading, run)
  /\ prev = metadata

RunArrives ==
  /\ ~run.defined
  /\ \E r \in Runs :
       /\ r.defined
       /\ run' = r
       /\ prev' = metadata
       /\ metadata' = RunMetadataProvider(logs, loading, run')
       /\ UNCHANGED <<logs, loading>>

NextSummary == RunArrives

SpecSummary == InitLoading /\ [][NextSummary]_vars

\* ------------------------------------------------------------------------
\* SpecProvider: next to a run summary, the log list starts loading and
\* empty, events arrive while it loads and afterwards, and the loading ends.
\* ------------------------------------------------------------------------
InitProvider ==
  /\ logs = <<>>
  /\ run \in ProviderRuns
  /\ loading = TRUE
  /\ metadata = RunMetadataProvider(logs, loading, run)
  /\ prev = metadata

ProvidedStepStart ==
  \E ts \in Timestamps, s \in StepKeys :
    /\ Len(logs) < MaxLogs
    /\ logs' = Arrived(Log("ExecutionStepStartEvent", ts, s))
    /\ prev' = metadata
    /\ metadata' = RunMetadataProvider(logs', loading, run)
    /\ UNCHANGED <<run, loading>>

ProvidedStepSuccess ==
  \E ts \in Timestamps, s \in StepKeys :
    /\ Len(logs) < MaxLogs
    /\ logs' = Arrived(Log("ExecutionStepSuccessEvent", ts, s))
    /\ prev' = metadata
    /\ metadata' = RunMetadataProvider(logs', loading, run)
    /\ UNCHANGED <<run, loading>>

ProvidedRunStart ==
  \E ts \in Timestamps :
    /\ Len(logs) < MaxLogs
    /\ logs' = Arrived(Log("RunStartEvent", ts, NoKey))
    /\ prev' = metadata
    /\ metadata' = RunMetadataProvider(logs', loading, run)
    /\ UNCHANGED <<run, loading>>

LoadingEnds ==
  /\ loading
  /\ loading' = FALSE
  /\ prev' = metadata
  /\ metadata' = RunMetadataProvider(logs, loading', run)
  /\ UNCHANGED <<logs, run>>

NextProvider ==
  \/ ProvidedStepStart
  \/ ProvidedStepSuccess
  \/ ProvidedRunStart
  \/ LoadingEnds

SpecProvider == InitProvider /\ [][NextProvider]_vars

\* ------------------------------------------------------------------------
\* SpecMarkerPairs: engine events open and close markers of two keys, for
\* one step or for the run as a whole.
\* ------------------------------------------------------------------------
PairKeys == {"k", "m"}
PairTargets == {"A", NoKey}

PairOpens ==
  \E ts \in Timestamps, s \in PairTargets, k \in PairKeys :
    /\ Len(logs) < MaxMarkerLogs
    /\ logs' = Arrived([Log("EngineEvent", ts, s) EXCEPT !.markerStart = k])
    /\ prev' = metadata
    /\ metadata' = extractMetadataFromLogs(logs')
    /\ UNCHANGED <<run, loading>>

PairCloses ==
  \E ts \in Timestamps, s \in PairTargets, k \in PairKeys :
    /\ Len(logs) < MaxMarkerLogs
    /\ logs' = Arrived([Log("EngineEvent", ts, s) EXCEPT !.markerEnd = k])
    /\ prev' = metadata
    /\ metadata' = extractMetadataFromLogs(logs')
    /\ UNCHANGED <<run, loading>>

NextMarkerPairs ==
  \/ PairOpens
  \/ PairCloses

SpecMarkerPairs == Init /\ [][NextMarkerPairs]_vars

\* ------------------------------------------------------------------------
\* SpecScoping: events that carry markerStart or markerEnd arrive for a step
\* or for the run as a whole; some are of a marker-capable kind, the others
\* are not.
\* ------------------------------------------------------------------------
OtherKinds == {"ExecutionStepStartEvent", "RunStartEvent"}

CapableOpens ==
  \E ts \in Timestamps, s \in MarkerTargets, k \in MarkerKeys :
    /\ Len(logs) < MaxLogs
    /\ logs' = Arrived([Log("EngineEvent", ts, s) EXCEPT !.markerStart = k])
    /\ prev' = metadata
    /\ metadata' = extractMetadataFromLogs(logs')
    /\ UNCHANGED <<run, loading>>

CapableCloses ==
  \E ts \in Timestamps, s \in MarkerTargets, k \in MarkerKeys :
    /\ Len(logs) < MaxLogs
    /\ logs' = Arrived([Log("EngineEvent", ts, s) EXCEPT !.markerEnd = k])
    /\ prev' = metadata
    /\ metadata' = extractMetadataFromLogs(logs')
    /\ UNCHANGED <<run, loading>>

OtherOpens ==
  \E kind \in OtherKinds, ts \in Timestamps, s \in MarkerTargets, k \in MarkerKeys :
    /\ Len(logs) < MaxLogs
    /\ logs' = Arrived([Log(kind, ts, s) EXCEPT !.markerStart = k])
    /\ prev' = metadata
    /\ metadata' = extractMetadataFromLogs(logs')
    /\ UNCHANGED <<run, loading>>

OtherCloses ==
  \E kind \in OtherKinds, ts \in Timestamps, s \in MarkerTargets, k \in MarkerKeys :
    /\ Len(logs) < MaxLogs
    /\ logs' = Arrived([Log(kind, ts, s) EXCEPT !.markerEnd = k])
    /\ prev' = metadata
    /\ metadata' = extractMetadataFromLogs(logs')
    /\ UNCHANGED <<run, loading>>

NextScoping ==
  \/ CapableOpens
  \/ CapableCloses
  \/ OtherOpens
  \/ OtherCloses

SpecScoping == Init /\ [][NextScoping]_vars

\* ------------------------------------------------------------------------
\* Vocabulary of the properties
\* ------------------------------------------------------------------------
LastLog == logs[Len(logs)]
LastTime == ParseInt(LastLog.timestamp)
TimeOf(i) == ParseInt(logs[i].timestamp)
Range(seq) == {seq[i] : i \in DOMAIN seq}
Count(seq, x) == Cardinality({i \in DOMAIN seq : seq[i] = x})
\* `after` holds the elements of `before` and those of `added`, and no other
Adds(before, after, added) ==
  \A x \in Range(before) \cup Range(after) \cup Range(added) :
    Count(after, x) = Count(before, x) + Count(added, x)
Transition(state, time) == [state |-> state, time |-> time]
AllAtOrBefore(transitions, time) ==
  \A i \in DOMAIN transitions : transitions[i].time <= time
\* the arrival orders of the events of `logs`
Reorderings ==
  {[i \in 1..Len(logs) |-> logs[f[i]]] : f \in Permutations(1..Len(logs))}
StepView(step) ==
  [state |-> step.state, start |-> step.start, end |-> step.end,
   attempts |-> step.attempts]

\* ------------------------------------------------------------------------
\* C1  Reordering: every arrival order of the events of `logs` gives every
\* step the same transitions and the same attempts.
\* ------------------------------------------------------------------------
C1_ReorderingSame ==
  \A other \in Reorderings :
    LET m == extractMetadataFromLogs(other)
    IN  \A s \in DOMAIN metadata.steps \cap DOMAIN m.steps :
          /\ m.steps[s].transitions = metadata.steps[s].transitions
          /\ m.steps[s].attempts = metadata.steps[s].attempts

\* ------------------------------------------------------------------------
\* C2  Growth.  SameAfterGrowth(n): every step of the dictionary of the first
\* n events whose transitions, in the dictionary of all events, are all at
\* or before the time of event n has the same state, start, end and
\* attempts in both dictionaries.
\* ------------------------------------------------------------------------
SameAfterGrowth(n) ==
  LET first == extractMetadataFromLogs(SubSeq(logs, 1, n))
  IN  \A s \in DOMAIN first.steps :
        AllAtOrBefore(metadata.steps[s].transitions, TimeOf(n))
          => StepView(metadata.steps[s]) = StepView(first.steps[s])

LaterEvents(n) == \A i \in (n + 1)..Len(logs) : TimeOf(i) > TimeOf(n)

\* C2 as stated: for every prefix e1..en of the events
C2_GrowthSame ==
  \A n \in 1..(Len(logs) - 1) : SameAfterGrowth(n)

\* C2 amended: for every prefix e1..en of the events such that every later
\* event has a timestamp after that of en, every step whose transitions are
\* all at or before the time of en has the same state, start, end, attempts.
C2_GrowthSameWhenLater ==
  \A n \in 1..(Len(logs) - 1) : LaterEvents(n) => SameAfterGrowth(n)

\* an extension by a later event changes another step and leaves a step alone
C2_Witness ==
  \E n \in 1..(Len(logs) - 1) :
    /\ LaterEvents(n)
    /\ \E s, u \in DOMAIN metadata.steps :
         /\ s \in DOMAIN extractMetadataFromLogs(SubSeq(logs, 1, n)).steps
         /\ metadata.steps[s].attempts # <<>>
         /\ AllAtOrBefore(metadata.steps[s].transitions, TimeOf(n))
         /\ ~AllAtOrBefore(metadata.steps[u].transitions, TimeOf(n))

\* ------------------------------------------------------------------------
\* C3  The state of every step is the state of the last element of its
\* transitions.
\* ------------------------------------------------------------------------
C3_StateIsLatestTransition ==
  \A s \in DOMAIN metadata.steps :
    LET t == metadata.steps[s].transitions
    IN  metadata.steps[s].state = t[Len(t)].state

\* ------------------------------------------------------------------------
\* C4  The transitions of every step are in non-decreasing order of time.
\* ------------------------------------------------------------------------
C4_TransitionsSorted ==
  \A s \in DOMAIN metadata.steps :
    LET t == metadata.steps[s].transitions
    IN  \A i \in 1..(Len(t) - 1) : t[i].time <= t[i + 1].time

\* a step whose transitions arrived out of order, with a PREPARING made up by
\* a retry and an UNKNOWN forced by the run exit among them
C4_Witness ==
  \E s \in DOMAIN metadata.steps :
    LET arrived == ReduceLogs(logs).steps[s].transitions
    IN  /\ \E i \in 1..(Len(arrived) - 1) : arrived[i].time > arrived[i + 1].time
        /\ \E i \in DOMAIN arrived : arrived[i].state = UNKNOWN
        /\ \E i \in DOMAIN arrived : arrived[i].state = RETRY_REQUESTED

\* ------------------------------------------------------------------------
\* C5  Every step has at most one attempt without an end, and only its last
\* attempt can be without one; an attempt is added only after the one before
\* it met an exit transition, so RUNNING transitions with no exit transition
\* between them make one attempt.
\* ------------------------------------------------------------------------
C5_OneOpenAttempt ==
  \A s \in DOMAIN metadata.steps :
    LET a == metadata.steps[s].attempts
        t == metadata.steps[s].transitions
        exits == {i \in DOMAIN t : t[i].state \in BOX_EXIT_STATES}
    IN  /\ \A i \in 1..(Len(a) - 1) : a[i].end # Undefined
        /\ Len(a) <= 1 + Cardinality(exits)

\* a step that started and restarted, with no exit: one attempt, still open
C5_Witness ==
  \E s \in DOMAIN metadata.steps :
    LET a == metadata.steps[s].attempts
        t == metadata.steps[s].transitions
    IN  /\ Cardinality({i \in DOMAIN t : t[i].state = RUNNING}) >= 2
        /\ \A i \in DOMAIN t : t[i].state \notin BOX_EXIT_STATES
        /\ Len(a) = 1
        /\ a[1].end = Undefined

\* ------------------------------------------------------------------------
\* C6  After a non-empty list of events, firstLogAt is the least and
\* mostRecentLogAt the greatest of the timestamps of the events.
\* ------------------------------------------------------------------------
C6_FirstAndMostRecent ==
  logs # <<>> =>
    LET times == {TimeOf(i) : i \in DOMAIN logs}
    IN  /\ metadata.firstLogAt \in times
        /\ metadata.mostRecentLogAt \in times
        /\ \A t \in times : metadata.firstLogAt <= t /\ t <= metadata.mostRecentLogAt

\* ------------------------------------------------------------------------
\* C7  A run-exit event at T sets exitedAt to T; the steps that were RUNNING
\* get the transition UNKNOWN@T and the state UNKNOWN, the other steps keep
\* their transitions and state; a forced step with no later event of its own
\* stays UNKNOWN.
\* ------------------------------------------------------------------------
C7_RunExitForcesRunning ==
  /\ (logs # <<>> /\ LastLog.typename \in RunExitTypes /\ LastLog.stepKey = NoKey) =>
       /\ metadata.exitedAt = LastTime
       /\ DOMAIN metadata.steps = DOMAIN prev.steps
       /\ \A s \in DOMAIN prev.steps :
            IF prev.steps[s].state = RUNNING
            THEN /\ metadata.steps[s].state = UNKNOWN
                 /\ Adds(prev.steps[s].transitions, metadata.steps[s].transitions,
                         <<Transition(UNKNOWN, LastTime)>>)
            ELSE /\ metadata.steps[s].state = prev.steps[s].state
                 /\ metadata.steps[s].transitions = prev.steps[s].transitions
  /\ \A i \in DOMAIN logs :
       logs[i].typename \in RunExitTypes =>
         LET before == extractMetadataFromLogs(SubSeq(logs, 1, i - 1))
         IN  \A s \in DOMAIN before.steps :
               (/\ before.steps[s].state = RUNNING
                /\ \A j \in (i + 1)..Len(logs) : logs[j].stepKey # s)
               => /\ metadata.steps[s].state = UNKNOWN
                  /\ Transition(UNKNOWN, TimeOf(i)) \in Range(metadata.steps[s].transitions)

\* the run exits while one step is RUNNING and another one is not
C7_Witness ==
  /\ logs # <<>>
  /\ LastLog.typename \in RunExitTypes
  /\ \E s, u \in DOMAIN prev.steps :
       /\ prev.steps[s].state = RUNNING
       /\ metadata.steps[s].state = UNKNOWN
       /\ prev.steps[u].state # RUNNING

\* ------------------------------------------------------------------------
\* C8  An ExecutionStepUpForRetryEvent at T for a step adds the transitions
\* RETRY_REQUESTED@T and PREPARING@T+1 and no other (after PREPARING@T when
\* the event creates the step), leaves the state PREPARING, and an attempt
\* that was open, started at or before T, gets end T and exit state
\* RETRY_REQUESTED.
\* ------------------------------------------------------------------------
C8_RetrySynthesis ==
  (logs # <<>> /\ LastLog.typename = "ExecutionStepUpForRetryEvent") =>
    LET s == LastLog.stepKey
        was == s \in DOMAIN prev.steps
        base == IF was THEN prev.steps[s].transitions
                ELSE <<Transition(PREPARING, LastTime)>>
        old == prev.steps[s].attempts
        n == Len(old)
    IN  /\ s \in DOMAIN metadata.steps
        /\ Adds(base, metadata.steps[s].transitions,
                <<Transition(RETRY_REQUESTED, LastTime),
                  Transition(PREPARING, LastTime + 1)>>)
        /\ metadata.steps[s].state = PREPARING
        /\ (was /\ n > 0 /\ old[n].end = Undefined /\ old[n].start <= LastTime) =>
             /\ Len(metadata.steps[s].attempts) >= n
             /\ metadata.steps[s].attempts[n] =
                  [start |-> old[n].start, end |-> LastTime,
                   exitState |-> RETRY_REQUESTED]

\* a retry of a step that has an open attempt
C8_Witness ==
  /\ logs # <<>>
  /\ LastLog.typename = "ExecutionStepUpForRetryEvent"
  /\ LastLog.stepKey \in DOMAIN prev.steps
  /\ LET old == prev.steps[LastLog.stepKey].attempts
     IN  /\ old # <<>>
         /\ old[Len(old)].end = Undefined
         /\ old[Len(old)].start <= LastTime
         /\ LastTime > 0

\* ------------------------------------------------------------------------
\* C9  An ObjectStoreOperationEvent with op CP_OBJECT for a step leaves the
\* steps as they were: no transition, and the same start, end, state and
\* markers.
\* ------------------------------------------------------------------------
C9_CopyDiscarded ==
  (/\ logs # <<>>
   /\ LastLog.typename = "ObjectStoreOperationEvent"
   /\ LastLog.op = "CP_OBJECT") =>
    /\ DOMAIN metadata.steps = DOMAIN prev.steps
    /\ \A s \in DOMAIN prev.steps :
         /\ metadata.steps[s].transitions = prev.steps[s].transitions
         /\ metadata.steps[s].start = prev.steps[s].start
         /\ metadata.steps[s].end = prev.steps[s].end
         /\ metadata.steps[s].state = prev.steps[s].state
         /\ metadata.steps[s].markers = prev.steps[s].markers

\* a copy event for a step that has started and has a marker
C9_Witness ==
  /\ logs # <<>>
  /\ LastLog.typename = "ObjectStoreOperationEvent"
  /\ LastLog.op = "CP_OBJECT"
  /\ LastLog.stepKey \in DOMAIN prev.steps
  /\ prev.steps[LastLog.stepKey].markers # <<>>
  /\ prev.steps[LastLog.stepKey].start # Undefined

\* ------------------------------------------------------------------------
\* C10  Lazy creation of the step of an event.
\* ------------------------------------------------------------------------
HasStepKey == logs # <<>> /\ LastLog.stepKey # NoKey
CopyEvent == LastLog.typename = "ObjectStoreOperationEvent" /\ LastLog.op = "CP_OBJECT"
TransitionTypes ==
  {"ExecutionStepStartEvent", "ExecutionStepSuccessEvent", "ExecutionStepSkippedEvent",
   "ExecutionStepFailureEvent", "ExecutionStepUpForRetryEvent",
   "ExecutionStepRestartEvent"}

\* a step the event made: PREPARING at the time of the event comes first, and
\* it is all there is when the kind of the event emits no transition
CreatedPreparing ==
  LET step == metadata.steps[LastLog.stepKey]
  IN  /\ step.transitions[1] = Transition(PREPARING, LastTime)
      /\ LastLog.typename \notin TransitionTypes =>
           /\ step.state = PREPARING
           /\ Len(step.transitions) = 1

\* C10 as stated: after an event with a step key, of whatever kind, the
\* dictionary has that step; a step the event made starts as PREPARING at
\* the time of the event.
C10_StepAlwaysCreated ==
  HasStepKey =>
    /\ LastLog.stepKey \in DOMAIN metadata.steps
    /\ LastLog.stepKey \notin DOMAIN prev.steps => CreatedPreparing

\* C10 amended: after an event with a step key of any kind but an
\* ObjectStoreOperationEvent with op CP_OBJECT, the dictionary has that step,
\* and a step the event made starts as PREPARING at the time of the event; a
\* CP_OBJECT event for a step the dictionary lacks makes no step.
C10_StepCreatedUnlessCopy ==
  HasStepKey =>
    IF CopyEvent
    THEN LastLog.stepKey \notin DOMAIN prev.steps
           => LastLog.stepKey \notin DOMAIN metadata.steps
    ELSE /\ LastLog.stepKey \in DOMAIN metadata.steps
         /\ LastLog.stepKey \notin DOMAIN prev.steps => CreatedPreparing

\* an event that emits no transition makes a step next to an older one
C10_Witness ==
  /\ HasStepKey
  /\ ~CopyEvent
  /\ LastLog.typename \notin TransitionTypes
  /\ LastLog.stepKey \notin DOMAIN prev.steps
  /\ LastLog.stepKey \in DOMAIN metadata.steps
  /\ DOMAIN prev.steps # {}

\* ------------------------------------------------------------------------
\* C11  A step whose only events are a step start at T1 and then a step
\* success at T2 > T1.
\* ------------------------------------------------------------------------
StepEventsOf(s) == {i \in DOMAIN logs : logs[i].stepKey = s}
StartThenSuccess(s, i, j) ==
  /\ i < j
  /\ StepEventsOf(s) = {i, j}
  /\ logs[i].typename = "ExecutionStepStartEvent"
  /\ logs[j].typename = "ExecutionStepSuccessEvent"
  /\ TimeOf(i) < TimeOf(j)
NoRunExitBetween(i, j) ==
  \A k \in (i + 1)..(j - 1) : logs[k].typename \notin RunExitTypes
SucceededOnce(s, i, j, transitions) ==
  /\ s \in DOMAIN metadata.steps
  /\ metadata.steps[s].state = SUCCEEDED
  /\ metadata.steps[s].start = TimeOf(i)
  /\ metadata.steps[s].end = TimeOf(j)
  /\ metadata.steps[s].transitions = transitions
  /\ metadata.steps[s].attempts =
       <<[start |-> TimeOf(i), end |-> TimeOf(j), exitState |-> SUCCEEDED]>>

\* C11 as stated: the step is SUCCEEDED, start T1, end T2, with transitions
\* [RUNNING@T1, SUCCEEDED@T2] and attempts [{T1, T2, SUCCEEDED}].
C11_StartSuccessTwoTransitions ==
  \A s \in StepKeys : \A i, j \in DOMAIN logs :
    StartThenSuccess(s, i, j) =>
      SucceededOnce(s, i, j, <<Transition(RUNNING, TimeOf(i)),
                               Transition(SUCCEEDED, TimeOf(j))>>)

\* C11 amended: when no run-exit event arrives between the two events, the
\* step is SUCCEEDED, start T1, end T2, with transitions [PREPARING@T1,
\* RUNNING@T1, SUCCEEDED@T2] and attempts [{T1, T2, SUCCEEDED}].
C11_StartSuccessAfterPreparing ==
  \A s \in StepKeys : \A i, j \in DOMAIN logs :
    (StartThenSuccess(s, i, j) /\ NoRunExitBetween(i, j)) =>
      SucceededOnce(s, i, j, <<Transition(PREPARING, TimeOf(i)),
                               Transition(RUNNING, TimeOf(i)),
                               Transition(SUCCEEDED, TimeOf(j))>>)

\* a step that started and succeeded, next to an event that is not its own
C11_Witness ==
  \E s \in StepKeys : \E i, j \in DOMAIN logs :
    /\ StartThenSuccess(s, i, j)
    /\ NoRunExitBetween(i, j)
    /\ Len(logs) = 3
    /\ metadata.steps[s].state = SUCCEEDED

\* ------------------------------------------------------------------------
\* C19  Transitions of one step with the same time are, in the returned
\* list, in the order in which event processing emitted them.
\* ------------------------------------------------------------------------
AtTime(transitions, time) ==
  LET SameTime(t) == t.time = time
  IN  SelectSeq(transitions, SameTime)

C19_TiesKeepArrivalOrder ==
  \A s \in DOMAIN metadata.steps :
    LET arrived == ReduceLogs(logs).steps[s].transitions
        sorted == metadata.steps[s].transitions
    IN  \A i \in DOMAIN arrived :
          AtTime(sorted, arrived[i].time) = AtTime(arrived, arrived[i].time)

\* two transitions of equal time and different state in a list the sort had
\* to reorder
C19_Witness ==
  \E s \in DOMAIN metadata.steps :
    LET arrived == ReduceLogs(logs).steps[s].transitions
    IN  /\ arrived # metadata.steps[s].transitions
        /\ \E i, j \in DOMAIN arrived :
             /\ i < j
             /\ arrived[i].time = arrived[j].time
             /\ arrived[i].state # arrived[j].state
             /\ \E k \in DOMAIN arrived : k > j /\ arrived[k].time < arrived[j].time

\* ------------------------------------------------------------------------
\* C20  Which exit transition closes an attempt.
\* ------------------------------------------------------------------------
RunningAt(t) == {i \in DOMAIN t : t[i].state = RUNNING}
ExitsIn(t, lo, hi) == {i \in lo..hi : t[i].state \in BOX_EXIT_STATES}
Least(S) == CHOOSE i \in S : \A j \in S : i <= j
Greatest(S) == CHOOSE i \in S : \A j \in S : j <= i
\* the k-th position of a set of positions
Kth(P, k) == CHOOSE i \in P : Cardinality({q \in P : q <= i}) = k
\* P can be the positions of the RUNNING transitions that opened the attempts
\* a: one per attempt, the first RUNNING transition among them
Openers(t, a, P) ==
  /\ P \subseteq RunningAt(t)
  /\ Cardinality(P) = Len(a)
  /\ (a = <<>>) <=> (RunningAt(t) = {})
  /\ P # {} => Least(P) = Least(RunningAt(t))
  /\ \A k \in DOMAIN a : a[k].start = t[Kth(P, k)].time
\* attempt `at` has the end and the exit state of transition e of t, or none
\* when there is no such transition
EndsWith(t, at, exits, e) ==
  IF exits = {} THEN at.end = Undefined /\ at.exitState = NoKey
  ELSE at.end = t[e].time /\ at.exitState = t[e].state

\* C20 as stated: every attempt has the end and exit state of the first exit
\* transition after the RUNNING transition that opened it; later exit
\* transitions, and those met before any attempt, change no attempt.  (Stated
\* for the steps whose transitions all have a time above 0, where an end that
\* is set is never taken for a missing one.)
C20_FirstExitCloses ==
  \A s \in DOMAIN metadata.steps :
    LET t == metadata.steps[s].transitions
        a == metadata.steps[s].attempts
    IN  (\A i \in DOMAIN t : t[i].time > 0) =>
        \E P \in SUBSET RunningAt(t) :
          /\ Openers(t, a, P)
          /\ \A k \in DOMAIN a :
               LET exits == ExitsIn(t, Kth(P, k), Len(t))
               IN  EndsWith(t, a[k], exits, Least(exits))

\* C20 amended: every attempt has the end and exit state of the last exit
\* transition between the RUNNING transition that opened it and the RUNNING
\* transition that opened the next attempt (the end of the list for the last
\* attempt): an exit transition met when the last attempt is already closed
\* overwrites its end and exit state; one met before any attempt changes none.
C20_LastExitCloses ==
  \A s \in DOMAIN metadata.steps :
    LET t == metadata.steps[s].transitions
        a == metadata.steps[s].attempts
    IN  \E P \in SUBSET RunningAt(t) :
          /\ Openers(t, a, P)
          /\ \A k \in DOMAIN a :
               LET hi == IF k = Len(a) THEN Len(t) ELSE Kth(P, k + 1) - 1
                   exits == ExitsIn(t, Kth(P, k), hi)
               IN  EndsWith(t, a[k], exits, Greatest(exits))

\* an attempt that two exit transitions of different times follow
C20_Witness ==
  \E s \in DOMAIN metadata.steps :
    LET t == metadata.steps[s].transitions
        a == metadata.steps[s].attempts
    IN  /\ Len(a) = 1
        /\ \E i, j, k \in DOMAIN t :
             /\ i < j /\ j < k
             /\ t[i].state = RUNNING
             /\ t[j].state \in BOX_EXIT_STATES
             /\ t[k].state \in BOX_EXIT_STATES
             /\ 0 < t[j].time /\ t[j].time < t[k].time
             /\ a[1].end = t[k].time

\* ------------------------------------------------------------------------
\* C12  A step whose events are, in order, start@a, queued for retry@b,
\* restart@c, failure@d, with a < b and b + 1 < c < d.
\* ------------------------------------------------------------------------
RetryThenFailure(s, i1, i2, i3, i4) ==
  /\ i1 < i2 /\ i2 < i3 /\ i3 < i4
  /\ StepEventsOf(s) = {i1, i2, i3, i4}
  /\ logs[i1].typename = "ExecutionStepStartEvent"
  /\ logs[i2].typename = "ExecutionStepUpForRetryEvent"
  /\ logs[i3].typename = "ExecutionStepRestartEvent"
  /\ logs[i4].typename = "ExecutionStepFailureEvent"
  /\ TimeOf(i1) < TimeOf(i2)
  /\ TimeOf(i2) + 1 < TimeOf(i3)
  /\ TimeOf(i3) < TimeOf(i4)
TwoAttempts(s, i1, i2, i3, i4) ==
  metadata.steps[s].attempts =
    <<[start |-> TimeOf(i1), end |-> TimeOf(i2), exitState |-> RETRY_REQUESTED],
      [start |-> TimeOf(i3), end |-> TimeOf(i4), exitState |-> FAILED]>>

\* C12 as stated: the attempts are {a, b, RETRY_REQUESTED}, {c, d, FAILED}.
C12_RetryTwoAttempts ==
  \A s \in StepKeys : \A i1, i2, i3, i4 \in DOMAIN logs :
    RetryThenFailure(s, i1, i2, i3, i4) => TwoAttempts(s, i1, i2, i3, i4)

\* ------------------------------------------------------------------------
\* C13  A step whose marker events are an open of key k at T1 and then a
\* close of key k at T2.
\* ------------------------------------------------------------------------
MarkerEventsOf(s) ==
  {i \in DOMAIN logs : /\ logs[i].stepKey = s
                       /\ logs[i].typename \in MarkerTypes
                       /\ (logs[i].markerStart # NoKey \/ logs[i].markerEnd # NoKey)}
OpenThenClose(s, k, i, j) ==
  /\ i < j
  /\ MarkerEventsOf(s) = {i, j}
  /\ logs[i].markerStart = k /\ logs[i].markerEnd = NoKey
  /\ logs[j].markerStart = NoKey /\ logs[j].markerEnd = k

\* C13: the step has exactly one marker, {key k, start T1, end T2}.
C13_OpenCloseOneMarker ==
  \A s \in StepKeys, k \in MarkerKeys : \A i, j \in DOMAIN logs :
    OpenThenClose(s, k, i, j) =>
      /\ s \in DOMAIN metadata.steps
      /\ metadata.steps[s].markers =
           <<[key |-> k, start |-> TimeOf(i), end |-> TimeOf(j)]>>

\* the open and the close, with a marker event of the same key for the run
\* as a whole arriving between them
C13_Witness ==
  \E s \in StepKeys, k \in MarkerKeys : \E i, j \in DOMAIN logs :
    /\ OpenThenClose(s, k, i, j)
    /\ TimeOf(i) < TimeOf(j)
    /\ \E m \in (i + 1)..(j - 1) : logs[m].stepKey = NoKey /\ logs[m].markerEnd = k
    /\ Len(metadata.steps[s].markers) = 1

\* ------------------------------------------------------------------------
\* C14  The attempts of a step of the summary model.
\* ------------------------------------------------------------------------
\* the step-stat records the summary model is built from: the last record
\* of each step
StatsOf(r) ==
  {i \in DOMAIN r.stepStats :
     \A j \in DOMAIN r.stepStats : r.stepStats[j].stepKey = r.stepStats[i].stepKey => j <= i}

\* C14: when the metadata is the summary model, the attempts of every step
\* are as many as the record's attempts and in their order, the last one has
\* the exit state mapped from the record's status and every earlier one has
\* RETRY_REQUESTED.
C14_SummaryAttempts ==
  (loading /\ run.defined) =>
    \A i \in StatsOf(run) :
      LET stat == run.stepStats[i]
          attempts == metadata.steps[stat.stepKey].attempts
          n == Len(stat.attempts)
      IN  /\ Len(attempts) = n
          /\ \A idx \in 1..n :
               /\ attempts[idx].start = fromTimestamp(stat.attempts[idx].startTime)
               /\ attempts[idx].end = fromTimestamp(stat.attempts[idx].endTime)
               /\ attempts[idx].exitState =
                    IF idx < n THEN RETRY_REQUESTED
                    ELSE metadata.steps[stat.stepKey].state

\* a FAILURE record with two attempts: RETRY_REQUESTED, then FAILED
C14_Witness ==
  /\ loading /\ run.defined
  /\ \E i \in StatsOf(run) :
       LET stat == run.stepStats[i]
           attempts == metadata.steps[stat.stepKey].attempts
       IN  /\ stat.status = "FAILURE"
           /\ Len(stat.attempts) = 2
           /\ attempts[1].exitState = RETRY_REQUESTED
           /\ attempts[2].exitState = FAILED
           /\ attempts[1].start # attempts[2].start

\* ------------------------------------------------------------------------
\* C15  The state of a step of the summary model.
\* ------------------------------------------------------------------------
\* C15: SUCCESS gives SUCCEEDED, FAILURE gives FAILED, SKIPPED gives SKIPPED,
\* every other status and the absent one give UNKNOWN; no step of the summary
\* model is PREPARING, RUNNING or RETRY_REQUESTED.
C15_StatusTable ==
  (loading /\ run.defined) =>
    /\ DOMAIN metadata.steps = {run.stepStats[i].stepKey : i \in DOMAIN run.stepStats}
    /\ \A i \in StatsOf(run) :
         LET stat == run.stepStats[i]
             state == metadata.steps[stat.stepKey].state
         IN  /\ stat.status = "SUCCESS" => state = SUCCEEDED
             /\ stat.status = "FAILURE" => state = FAILED
             /\ stat.status = "SKIPPED" => state = SKIPPED
             /\ stat.status \notin {"SUCCESS", "FAILURE", "SKIPPED"} => state = UNKNOWN
             /\ state \notin {PREPARING, RUNNING, RETRY_REQUESTED}

\* a run with a skipped step and a step without a status
C15_Witness ==
  /\ loading /\ run.defined
  /\ \E i, j \in StatsOf(run) :
       /\ run.stepStats[i].status = "SKIPPED"
       /\ run.stepStats[j].status = NoStatus
       /\ metadata.steps[run.stepStats[i].stepKey].state = SKIPPED
       /\ metadata.steps[run.stepStats[j].stepKey].state = UNKNOWN

\* ------------------------------------------------------------------------
\* C16  The metadata handed to the children while the log list loads, and
\* afterwards.
\* ------------------------------------------------------------------------
\* C16 as stated: while the log list is loading, or holds an event, the
\* metadata is the reduction of the events so far.
C16_LiveWhenLoadingOrEvents ==
  (loading \/ Len(logs) > 0) => metadata = extractMetadataFromLogs(logs)

\* C16 amended: while the log list is loading the metadata is the summary
\* model of the run, whether or not events are present; when it is not
\* loading the metadata is the reduction of the events so far.
C16_LiveWhenNotLoading ==
  /\ loading => metadata = extractMetadataFromRun(run)
  /\ ~loading => metadata = extractMetadataFromLogs(logs)

\* the loading has just ended with events present: the summary model was
\* handed out with them, the reduction is handed out now
C16_Witness ==
  /\ ~loading
  /\ Len(logs) > 0
  /\ run.defined
  /\ prev = extractMetadataFromRun(run)
  /\ metadata # prev
  /\ \E s \in DOMAIN metadata.steps : metadata.steps[s].transitions # <<>>

\* ------------------------------------------------------------------------
\* C17  The metadata handed to the children when the log list is not loading
\* and holds no event.
\* ------------------------------------------------------------------------
\* the steps, and the start and exit times, of the summary model of the run
SameAsSummary ==
  /\ DOMAIN metadata.steps = {run.stepStats[i].stepKey : i \in DOMAIN run.stepStats}
  /\ metadata.startedPipelineAt = fromTimestamp(run.startTime)
  /\ metadata.exitedAt = fromTimestamp(run.endTime)

\* C17 as stated: the metadata has the steps and times of the run summary.
C17_SummaryWhenIdle ==
  (~loading /\ logs = <<>>) => SameAsSummary

\* C17 amended: the metadata is the empty model: no steps, no markers, first
\* and most recent log time 0, no start and no exit time.
C17_EmptyWhenIdle ==
  (~loading /\ logs = <<>>) =>
    /\ DOMAIN metadata.steps = {}
    /\ metadata.globalMarkers = <<>>
    /\ metadata.firstLogAt = 0
    /\ metadata.mostRecentLogAt = 0
    /\ metadata.startedPipelineAt = Undefined
    /\ metadata.exitedAt = Undefined

\* the loading ended without an event, next to a run summary with a step
C17_Witness ==
  /\ ~loading
  /\ logs = <<>>
  /\ run.defined
  /\ run.stepStats # <<>>
  /\ DOMAIN prev.steps # {}
  /\ DOMAIN metadata.steps = {}

\* ------------------------------------------------------------------------
\* C21  The marker events of one key on one step are open@T1, close@T2,
\* open@T3, close@T4, in this order.
\* ------------------------------------------------------------------------
\* the marker events of key k with target s (a step, or NoKey for the run)
KeyEventsOf(s, k) ==
  {i \in DOMAIN logs : /\ logs[i].stepKey = s
                       /\ logs[i].typename \in MarkerTypes
                       /\ (logs[i].markerStart = k \/ logs[i].markerEnd = k)}
IsOpen(i, k) == logs[i].markerStart = k /\ logs[i].markerEnd = NoKey
IsClose(i, k) == logs[i].markerStart = NoKey /\ logs[i].markerEnd = k
OpenCloseTwice(s, k, i1, i2, i3, i4) ==
  /\ i1 < i2 /\ i2 < i3 /\ i3 < i4
  /\ KeyEventsOf(s, k) = {i1, i2, i3, i4}
  /\ IsOpen(i1, k) /\ IsClose(i2, k) /\ IsOpen(i3, k) /\ IsClose(i4, k)
\* the markers of key k in a marker list, in the order of the list
RECURSIVE MarkersOfKey(_, _)
MarkersOfKey(set, k) ==
  IF set = <<>> THEN <<>>
  ELSE IF Head(set).key = k THEN <<Head(set)>> \o MarkersOfKey(Tail(set), k)
  ELSE MarkersOfKey(Tail(set), k)

\* C21: the step has two markers of the key, {T3, T4} in front of {T1, T2}.
C21_OpenCloseTwiceTwoMarkers ==
  \A k \in PairKeys : \A i1, i2, i3, i4 \in DOMAIN logs :
    OpenCloseTwice("A", k, i1, i2, i3, i4) =>
      MarkersOfKey(metadata.steps["A"].markers, k) =
        <<[key |-> k, start |-> TimeOf(i3), end |-> TimeOf(i4)],
          [key |-> k, start |-> TimeOf(i1), end |-> TimeOf(i2)]>>

\* ------------------------------------------------------------------------
\* C27  The marker events of one key on one target are an open at T1 and a
\* close at T2, in either arrival order.
\* ------------------------------------------------------------------------
OpenAndClose(s, k, i, j) ==
  /\ i # j
  /\ KeyEventsOf(s, k) = {i, j}
  /\ IsOpen(i, k) /\ IsClose(j, k)
MarkersOfTarget(s) ==
  IF s = NoKey THEN metadata.globalMarkers
  ELSE IF s \in DOMAIN metadata.steps THEN metadata.steps[s].markers
  ELSE <<>>

\* C27: the target has the single marker {k, T1, T2} of that key, whichever
\* of the two events arrived first.
C27_PairingAnyOrder ==
  \A s \in PairTargets, k \in PairKeys : \A i, j \in DOMAIN logs :
    OpenAndClose(s, k, i, j) =>
      MarkersOfKey(MarkersOfTarget(s), k) =
        <<[key |-> k, start |-> TimeOf(i), end |-> TimeOf(j)]>>

\* ------------------------------------------------------------------------
\* C30  The markers of a marker list that are still open.
\* ------------------------------------------------------------------------
\* the markers of key k in a list that have no end, or the end 0 that
\* upsertMarker takes for none
OpenMarkers(set, k) ==
  {i \in DOMAIN set : set[i].key = k /\ ~Truthy(set[i].end)}

\* C30: every marker list has at most one open marker of each key.
C30_OneOpenMarkerPerKey ==
  \A k \in PairKeys :
    /\ Cardinality(OpenMarkers(metadata.globalMarkers, k)) <= 1
    /\ \A s \in DOMAIN metadata.steps :
         Cardinality(OpenMarkers(metadata.steps[s].markers, k)) <= 1

\* a list with a closed marker and, in front of it, a reopened one of the
\* same key that a second open event has found again
C30_Witness ==
  \E s \in DOMAIN metadata.steps, k \in PairKeys :
    LET set == metadata.steps[s].markers
    IN  /\ Len(MarkersOfKey(set, k)) = 2
        /\ Cardinality(OpenMarkers(set, k)) = 1
        /\ Cardinality({i \in KeyEventsOf(s, k) : IsOpen(i, k)}) = 3

\* ------------------------------------------------------------------------
\* C25  The marker lists the last event changed.
\* ------------------------------------------------------------------------
\* the step has the markers it had before the last event; a step the event
\* made has none
SameMarkers(s) ==
  IF s \in DOMAIN prev.steps THEN metadata.steps[s].markers = prev.steps[s].markers
  ELSE metadata.steps[s].markers = <<>>
CarriesMarker(log) == log.markerStart # NoKey \/ log.markerEnd # NoKey

\* C25: a marker-capable event without a step key changes no step's markers;
\* one with the step key s changes neither the global markers nor the
\* markers of another step; an event of another kind changes no marker list,
\* whatever it carries.
C25_MarkerScoping ==
  logs # <<>> =>
    /\ (LastLog.typename \in MarkerTypes /\ LastLog.stepKey = NoKey) =>
         /\ DOMAIN metadata.steps = DOMAIN prev.steps
         /\ \A s \in DOMAIN metadata.steps : SameMarkers(s)
    /\ (LastLog.typename \in MarkerTypes /\ LastLog.stepKey # NoKey) =>
         /\ metadata.globalMarkers = prev.globalMarkers
         /\ \A s \in DOMAIN metadata.steps \ {LastLog.stepKey} :
              s \in DOMAIN prev.steps /\ SameMarkers(s)
    /\ LastLog.typename \notin MarkerTypes =>
         /\ metadata.globalMarkers = prev.globalMarkers
         /\ \A s \in DOMAIN metadata.steps : SameMarkers(s)

\* next to a global marker and a marker of the step, an event of another
\* kind arrives for the step and carries a marker key
C25_Witness ==
  /\ logs # <<>>
  /\ LastLog.typename \notin MarkerTypes
  /\ CarriesMarker(LastLog)
  /\ LastLog.stepKey \in DOMAIN prev.steps
  /\ prev.steps[LastLog.stepKey].markers # <<>>
  /\ prev.globalMarkers # <<>>
  /\ metadata.steps[LastLog.stepKey].markers = prev.steps[LastLog.stepKey].markers

\* ------------------------------------------------------------------------
\* C22  The end of a step.
\* ------------------------------------------------------------------------
EndEventsOf(s) ==
  {i \in DOMAIN logs :
     /\ logs[i].stepKey = s
     /\ logs[i].typename \in {"ExecutionStepSuccessEvent", "ExecutionStepFailureEvent"}}

\* C22: the end of a step is the greatest timestamp of its success and
\* failure events, in whatever order they arrived, and is not set when it has
\* none; the last event has not lowered the end of any step.
C22_EndIsGreatest ==
  /\ \A s \in StepKeys :
       IF EndEventsOf(s) = {}
       THEN s \in DOMAIN metadata.steps => metadata.steps[s].end = Undefined
       ELSE /\ s \in DOMAIN metadata.steps
            /\ metadata.steps[s].end = Greatest({TimeOf(i) : i \in EndEventsOf(s)})
  /\ \A s \in DOMAIN prev.steps :
       /\ s \in DOMAIN metadata.steps
       /\ prev.steps[s].end # Undefined =>
            /\ metadata.steps[s].end # Undefined
            /\ prev.steps[s].end <= metadata.steps[s].end

\* a step that failed at a time and then succeeded at an earlier one
C22_Witness ==
  \E s \in DOMAIN metadata.steps : \E i, j \in EndEventsOf(s) :
    /\ i < j
    /\ j = Len(logs)
    /\ TimeOf(i) > TimeOf(j)
    /\ metadata.steps[s].end = TimeOf(i)
    /\ metadata.steps[s].state = SUCCEEDED

\* ------------------------------------------------------------------------
\* C23  The start of a step.
\* ------------------------------------------------------------------------
StartEventsOf(s) ==
  {i \in DOMAIN logs :
     logs[i].stepKey = s /\ logs[i].typename = "ExecutionStepStartEvent"}
\* the transitions, start and end the step of the last event had before it
TransitionsBefore(s) ==
  IF s \in DOMAIN prev.steps THEN prev.steps[s].transitions
  ELSE <<Transition(PREPARING, LastTime)>>
StartBefore(s) == IF s \in DOMAIN prev.steps THEN prev.steps[s].start ELSE Undefined
EndBefore(s) == IF s \in DOMAIN prev.steps THEN prev.steps[s].end ELSE Undefined

\* C23: a step start at T adds the transition RUNNING@T and sets the start to
\* T; a step restart at T adds RUNNING@T and leaves start and end as they
\* were; the start of a step is the timestamp of the start event of the step
\* that arrived last.
C23_StartIsLastStart ==
  /\ (logs # <<>> /\ LastLog.typename = "ExecutionStepStartEvent" /\ HasStepKey) =>
       LET s == LastLog.stepKey
       IN  /\ Adds(TransitionsBefore(s), metadata.steps[s].transitions,
                   <<Transition(RUNNING, LastTime)>>)
           /\ metadata.steps[s].start = LastTime
           /\ metadata.steps[s].end = EndBefore(s)
  /\ (logs # <<>> /\ LastLog.typename = "ExecutionStepRestartEvent" /\ HasStepKey) =>
       LET s == LastLog.stepKey
       IN  /\ Adds(TransitionsBefore(s), metadata.steps[s].transitions,
                   <<Transition(RUNNING, LastTime)>>)
           /\ metadata.steps[s].start = StartBefore(s)
           /\ metadata.steps[s].end = EndBefore(s)
  /\ \A s \in DOMAIN metadata.steps :
       IF StartEventsOf(s) = {} THEN metadata.steps[s].start = Undefined
       ELSE metadata.steps[s].start = TimeOf(Greatest(StartEventsOf(s)))

\* a step that started, and restarts at another time
C23_Witness ==
  /\ logs # <<>>
  /\ LastLog.typename = "ExecutionStepRestartEvent"
  /\ LastLog.stepKey \in DOMAIN prev.steps
  /\ prev.steps[LastLog.stepKey].start # Undefined
  /\ prev.steps[LastLog.stepKey].start # LastTime
  /\ metadata.steps[LastLog.stepKey].start = prev.steps[LastLog.stepKey].start

\* ------------------------------------------------------------------------
\* C24  A step-skipped event.
\* ------------------------------------------------------------------------
\* C24: a step-skipped event at T adds the transition SKIPPED@T, sets the
\* state to SKIPPED, and leaves the attempts, the start and the end of the
\* step as they were; a step with no other event has no attempts.
C24_SkippedLeavesAttempts ==
  /\ (logs # <<>> /\ LastLog.typename = "ExecutionStepSkippedEvent" /\ HasStepKey) =>
       LET s == LastLog.stepKey
       IN  /\ metadata.steps[s].state = SKIPPED
           /\ Adds(TransitionsBefore(s), metadata.steps[s].transitions,
                   <<Transition(SKIPPED, LastTime)>>)
           /\ metadata.steps[s].attempts =
                (IF s \in DOMAIN prev.steps THEN prev.steps[s].attempts ELSE <<>>)
           /\ metadata.steps[s].start = StartBefore(s)
           /\ metadata.steps[s].end = EndBefore(s)
  /\ \A s \in DOMAIN metadata.steps :
       (\A i \in StepEventsOf(s) : logs[i].typename = "ExecutionStepSkippedEvent")
         => metadata.steps[s].attempts = <<>>

\* a step with an open attempt is skipped at a later time: the attempt stays
\* open
C24_Witness ==
  /\ logs # <<>>
  /\ LastLog.typename = "ExecutionStepSkippedEvent"
  /\ LastLog.stepKey \in DOMAIN prev.steps
  /\ LET s == LastLog.stepKey
     IN  /\ Len(prev.steps[s].attempts) = 1
         /\ prev.steps[s].attempts[1].end = Undefined
         /\ prev.steps[s].attempts[1].start < LastTime
         /\ metadata.steps[s].attempts = prev.steps[s].attempts
         /\ metadata.steps[s].state = SKIPPED

\* ------------------------------------------------------------------------
\* C26  The steps of a run that has exited.
\* ------------------------------------------------------------------------
RunExitEvents == {i \in DOMAIN logs : logs[i].typename \in RunExitTypes}

\* C26: once a run-exit event has been processed no step is RUNNING,
\* wherever the run-exit event arrived among the step events. Stated for the
\* steps whose events all have a timestamp before that of a run-exit event,
\* the steps that the run has outlived by the timestamps too.
C26_NoRunningAfterExit ==
  \A s \in DOMAIN metadata.steps :
    (\E e \in RunExitEvents : \A i \in StepEventsOf(s) : TimeOf(i) < TimeOf(e)) =>
      /\ metadata.exitedAt # Undefined
      /\ metadata.steps[s].state # RUNNING

\* ------------------------------------------------------------------------
\* C28  The attempts of a step, one after another.
\* ------------------------------------------------------------------------
\* C28: a closed attempt ends at or after its start, an attempt that is
\* followed by another one is closed and ends at or before the start of the
\* next, and every attempt starts at the time of a RUNNING transition.
C28_AttemptsInOrder ==
  \A s \in DOMAIN metadata.steps :
    LET a == metadata.steps[s].attempts
        t == metadata.steps[s].transitions
    IN  /\ \A i \in DOMAIN a : a[i].end # Undefined => a[i].start <= a[i].end
        /\ \A i \in 1..(Len(a) - 1) :
             a[i].end # Undefined /\ a[i].end <= a[i + 1].start
        /\ \A i \in DOMAIN a : Transition(RUNNING, a[i].start) \in Range(t)

\* a step with a closed attempt and a later one
C28_Witness ==
  \E s \in DOMAIN metadata.steps :
    LET a == metadata.steps[s].attempts
    IN  /\ Len(a) = 2
        /\ a[1].start < a[1].end
        /\ a[1].end < a[2].start

\* ------------------------------------------------------------------------
\* C29  The exit state of an attempt.
\* ------------------------------------------------------------------------
\* C29: an attempt has an exit state exactly when it has an end, and the
\* exit state is RETRY_REQUESTED, SUCCEEDED, FAILED or UNKNOWN.
C29_ExitStateWithEnd ==
  \A s \in DOMAIN metadata.steps :
    \A i \in DOMAIN metadata.steps[s].attempts :
      LET attempt == metadata.steps[s].attempts[i]
      IN  /\ attempt.exitState # NoKey <=> attempt.end # Undefined
          /\ attempt.exitState \in {NoKey, RETRY_REQUESTED, SUCCEEDED, FAILED, UNKNOWN}

\* a closed attempt of one step next to an open attempt of another one that
\* was skipped
C29_Witness ==
  \E s, u \in DOMAIN metadata.steps :
    /\ Len(metadata.steps[s].attempts) = 1
    /\ metadata.steps[s].attempts[1].exitState = UNKNOWN
    /\ Len(metadata.steps[u].attempts) = 1
    /\ metadata.steps[u].attempts[1].exitState = NoKey
    /\ metadata.steps[u].attempts[1].end = Undefined

====
